---------------------------- MODULE Spec2Model ----------------------------
(***************************************************************************)
(* The service worker of static/sw.js as a state machine: the install and  *)
(* activate listeners, the fetch listener with its two retrieval           *)
(* strategies, the sync listener with its replay scan, and the Cache       *)
(* Storage they share.  The host (the browser's service-worker life       *)
(* cycle) dispatches the events; every step of a listener between two      *)
(* awaits of the source is one action.                                     *)
(***************************************************************************)
EXTENDS Naturals, Integers, Sequences, FiniteSets, TLC

(***************************************************************************)
(* Bounds of the model.                                                    *)
(***************************************************************************)
\* Versions of sw.js that are deployed one after the other: 1..MaxVersion.
MaxVersion == 2
\* Fetch events whose handlers are alive at the same time.
MaxInFlight == 1
\* Push events delivered.
MaxPushes == 3

Versions == 1..MaxVersion
Slots == 1..MaxInFlight

(***************************************************************************)
(* Strings.  A string is a sequence of pieces; includes() and startsWith() *)
(* are computed on the pieces as String.prototype computes them on         *)
(* characters.                                                             *)
(***************************************************************************)
Includes(s, t) ==
    \E i \in 0..Len(s) : i + Len(t) <= Len(s) /\ SubSeq(s, i + 1, i + Len(t)) = t

StartsWith(s, t) == Len(t) <= Len(s) /\ SubSeq(s, 1, Len(t)) = t

\* self.location.origin, and an origin that differs from it but contains it.
SelfOrigin == <<"https://", "app.example">>
PortOrigin == <<"https://", "app.example", ":8443">>
FontsOrigin == <<"https://", "fonts.googleapis.com">>
JsDelivrOrigin == <<"https://", "cdn.jsdelivr.net">>
UnpkgOrigin == <<"https://", "unpkg.com">>

Url(o, p) == [origin |-> o, path |-> p]

(***************************************************************************)
(* sw.js lines 2-15: the partition names of a version and the precache     *)
(* manifest.  The version tag 'v1.0.0' of the source is the number v.      *)
(***************************************************************************)
STATIC_CACHE(v) == <<"ai-recipe-bot-static-v", v>>

\* A worker whose runtime partition is its precache partition.
PrecacheAsRuntime(v) == <<"ai-recipe-bot-static-v", v>>

\* line 4
DYNAMIC_CACHE(v) == <<"ai-recipe-bot-dynamic-v", v>>

CacheNames == {STATIC_CACHE(v) : v \in Versions} \cup {DYNAMIC_CACHE(v) : v \in Versions}

STATIC_ASSETS ==
    << Url(SelfOrigin, <<"/">>),
       Url(SelfOrigin, <<"/static/", "manifest.json">>),
       Url(FontsOrigin, <<"/css2">>),
       Url(JsDelivrOrigin, <<"/npm/", "bootstrap.min.css">>),
       Url(JsDelivrOrigin, <<"/npm/", "bootstrap-icons.css">>),
       Url(UnpkgOrigin, <<"/htmx.min.js">>),
       Url(JsDelivrOrigin, <<"/npm/", "bootstrap.bundle.min.js">>) >>

\* The key of a stored entry is the request it was stored under.  A URL given
\* to cache.addAll (line 24) or to caches.match (line 110) is the GET request
\* for that URL.
Key(m, u) == [method |-> m, url |-> u]
GetKey(u) == Key("GET", u)

ManifestUrls == {GetKey(STATIC_ASSETS[i]) : i \in DOMAIN STATIC_ASSETS}

(***************************************************************************)
(* Requests and responses.                                                 *)
(***************************************************************************)
Req(m, o, p, a) == [method |-> m, url |-> Url(o, p), accept |-> a]

\* The requests the controlled pages issue.
\* Accept headers: of a navigation, of a script's fetch(), of a stylesheet,
\* of an image.
AcceptPage == <<"text/html", ",application/xhtml+xml", ",*/*;q=0.8">>
AcceptAny == <<"*/*">>
AcceptCss == <<"text/css", ",*/*;q=0.1">>
AcceptImage == <<"image/avif", ",image/webp", ",*/*;q=0.8">>

Requests ==
    { Req("GET", SelfOrigin, <<"/api/", "status">>, AcceptAny),
      Req("GET", SelfOrigin, <<"/">>, AcceptPage),
      Req("GET", SelfOrigin, <<"/page">>, AcceptPage),
      Req("GET", SelfOrigin, <<"/static/", "icon.png">>, AcceptImage),
      Req("POST", SelfOrigin, <<"/recipes/create">>, AcceptPage),
      Req("GET", JsDelivrOrigin, <<"/npm/", "bootstrap.min.css">>, AcceptCss),
      Req("GET", PortOrigin, <<"/api/", "status">>, AcceptAny) }

NoReq == Req("", <<>>, <<>>, <<>>)

\* The key cache.put(request, ...) and caches.match(request) use.
KeyOf(req) == Key(req.method, req.url)

Resp(ok, ct, b) == [ok |-> ok, ctype |-> ct, body |-> b]
NoResp == Resp(FALSE, <<>>, 0)

\* What respondWith was given: nothing yet, no respondWith at all (the
\* browser handles the request itself), a rejection or undefined (a network
\* error for the caller), or a response; Killed when the host terminated the
\* worker before the handler gave anything.
Pending == [kind |-> "pending", resp |-> NoResp]
Bypass == [kind |-> "bypass", resp |-> NoResp]
Failure == [kind |-> "error", resp |-> NoResp]
Killed == [kind |-> "killed", resp |-> NoResp]
Responded(r) == [kind |-> "response", resp |-> r]

\* The content types the origin serves for a request.
ContentTypes(req) ==
    IF StartsWith(req.url.path, <<"/api/">>) THEN {<<"application/json">>}
    ELSE IF StartsWith(req.url.path, <<"/static/">>) THEN {<<"image/png">>}
    ELSE {<<"text/html", "; charset=utf-8">>, <<"image/png">>}

(***************************************************************************)
(* Cache Storage: the partitions in creation order, and their entries.     *)
(***************************************************************************)
EmptyCache == [k \in {} |-> NoResp]

Has(names, n) == \E i \in DOMAIN names : names[i] = n

\* caches.open(n): creates the partition when it does not exist.
Opened(names, n) == IF Has(names, n) THEN names ELSE Append(names, n)

\* caches.delete(n)
Deleted(names, n) == SelectSeq(names, LAMBDA x : x # n)

\* A put that keeps the response it finds under the key.
PutIfAbsent(cache, key, r) ==
    [k \in DOMAIN cache \cup {key} |-> IF k \in DOMAIN cache THEN cache[k] ELSE r]

\* cache.put(key, r): one key holds one response.
Put(cache, key, r) ==
    [k \in DOMAIN cache \cup {key} |-> IF k = key THEN r ELSE cache[k]]

\* caches.match(key): the first partition, in creation order, that holds key.
Holders(names, st, key) == {i \in DOMAIN names : key \in DOMAIN st[names[i]]}

Stored(names, st, key) == Holders(names, st, key) # {}

Match(names, st, key) ==
    LET hs == Holders(names, st, key)
        i == CHOOSE j \in hs : \A k \in hs : j <= k
    IN  IF hs = {} THEN Failure ELSE Responded(st[names[i]][key])

VARIABLES
    deployed,   \* the version of sw.js (and of the content) the origin serves
    w,          \* w[v]: the worker running version v of sw.js
    names,      \* Cache Storage: the partition names, in creation order
    store,      \* store[n]: the entries of partition n
    controller, \* the version that called clients.claim() last, 0 for none
    ev,         \* ev[s]: the fetch event of slot s and its handler
    sync,       \* the sync event being handled, or the last one handled
    notif       \* the push and notificationclick handlers, the notifications
                \* displayed and the windows opened

vars == <<deployed, w, names, store, controller, ev, sync, notif>>

NewWorker ==
    [state |-> "parsed", pc |-> "idle", skip |-> FALSE, stored |-> FALSE,
     orphan |-> FALSE, todel |-> {}]

FreeSlot ==
    [v |-> 0, req |-> NoReq, pc |-> "free", result |-> Pending, via |-> "",
     net |-> 0, bg |-> "none", orphan |-> FALSE, copy |-> NoResp]

\* No sync event yet.  found: the requests the scan selected; todo: those
\* the loop has not reached; cur: the one whose replay was answered; sent,
\* confirmed, removed: the requests replayed, answered with a success status
\* and deleted by this scan; repeat: the signal before this one was handled
\* by a scan of the same worker that completed; threw: the catch block of
\* line 147 ran.
NoSync ==
    [v |-> 0, tag |-> "", pc |-> "idle", result |-> "", found |-> {}, todo |-> {},
     cur |-> {}, sent |-> {}, confirmed |-> {}, removed |-> {}, repeat |-> FALSE,
     threw |-> FALSE]

\* notification.data.url when the data carries none.
NoUrl == <<>>

NoNote == [title |-> "", body |-> "", icon |-> "", badge |-> "", url |-> NoUrl]

\* event.data of a push event: none, a text that is not JSON, or the JSON
\* text of {title, body, data: {url}} (url is NoUrl when data has none).
Payload(k, t, b, u) == [kind |-> k, title |-> t, body |-> b, url |-> u]

NoPayload == Payload("none", "", "", NoUrl)

\* A notification with the payload of the push event it was built for.
Shown(n, p) == [note |-> n, data |-> p]

\* No push event yet.  pushes: the push events delivered; push, data, note:
\* the push handler, the payload of its event and the notification it is
\* displaying; outcome: how the listener of the last push event ended;
\* shown: the notifications displayed and not closed; click, clicked,
\* action, target: the notificationclick handler, the notification and the
\* action of its event and the URL it is opening; windows: the windows
\* opened.
NoNotif ==
    [pushes |-> 0, push |-> "idle", data |-> NoPayload, note |-> NoNote,
     outcome |-> "", shown |-> <<>>, click |-> "idle",
     clicked |-> Shown(NoNote, NoPayload), action |-> "", target |-> NoUrl,
     windows |-> <<>>]

Init ==
    /\ sync = NoSync
    /\ notif = NoNotif
    /\ deployed = 1
    /\ w = [v \in Versions |-> NewWorker]
    /\ names = <<>>
    /\ store = [n \in CacheNames |-> EmptyCache]
    /\ controller = 0
    /\ ev = [s \in Slots |-> FreeSlot]

Active == {v \in Versions : w[v].state \in {"activating", "activated"}}
Installing == {v \in Versions : w[v].state = "installing"}


(***************************************************************************)
(* The host: deployments and registration (the Register/Update job).       *)
(***************************************************************************)
\* The origin starts serving the next version of sw.js and of its content.
Deploy ==
    /\ deployed < MaxVersion
    /\ deployed' = deployed + 1
    /\ UNCHANGED <<notif, sync, w, names, store, controller, ev>>

\* The install event is dispatched to a new worker of the deployed version
\* (a first registration, an update, or another try after a failed install).
\* One worker installs at a time; sw.js lines 18-21 start caches.open().
Register(v) ==
    /\ v = deployed
    /\ Installing = {}
    /\ \/ w[v].state = "parsed"
       \/ w[v].state = "redundant" /\ w[v].pc = "rejected"
    /\ w' = [w EXCEPT ![v] = [NewWorker EXCEPT !.state = "installing", !.pc = "open"]]
    /\ UNCHANGED <<notif, sync, deployed, names, store, controller, ev>>

(***************************************************************************)
(* sw.js lines 18-28: the install listener.                                *)
(***************************************************************************)
\* line 21: caches.open(STATIC_CACHE) resolves.
InstallOpen(v) ==
    /\ w[v].state = "installing" /\ w[v].pc = "open"
    /\ names' = Opened(names, STATIC_CACHE(v))
    /\ w' = [w EXCEPT ![v].pc = "addAll"]
    /\ UNCHANGED <<notif, sync, deployed, store, controller, ev>>

\* What the fetches of cache.addAll settle with: every one succeeds, one of
\* them fails, or all of them fail (the origin or the network is down).
FetchOutcomes ==
    {[i \in DOMAIN STATIC_ASSETS |-> "ok"], [i \in DOMAIN STATIC_ASSETS |-> "failed"]}
    \cup {[i \in DOMAIN STATIC_ASSETS |-> IF i = j THEN "failed" ELSE "ok"] :
             j \in DOMAIN STATIC_ASSETS}

AllFetched(outcome) == \A i \in DOMAIN STATIC_ASSETS : outcome[i] = "ok"

\* A precache that stores every asset on its own (cache.add per URL): the
\* assets fetched are stored although another fetch failed.
AddAllEach(cache, outcome, body) ==
    LET got == {GetKey(STATIC_ASSETS[i]) : i \in {j \in DOMAIN STATIC_ASSETS : outcome[j] = "ok"}}
    IN  [k \in DOMAIN cache \cup got |->
            IF k \in got THEN Resp(TRUE, <<"asset">>, body) ELSE cache[k]]

\* line 24: cache.addAll(STATIC_ASSETS).  Every URL is fetched; the
\* responses are stored together when every fetch succeeded, none otherwise.
AddAll(cache, outcome, body) ==
    IF AllFetched(outcome)
    THEN [k \in DOMAIN cache \cup ManifestUrls |->
             IF k \in ManifestUrls THEN Resp(TRUE, <<"asset">>, body) ELSE cache[k]]
    ELSE cache

\* An install chain that swallows the rejection of addAll.
AfterAddAllSwallowed(outcome) == "skipWaiting"

\* lines 20-27: .then(() => self.skipWaiting()) runs when addAll fulfilled;
\* a rejection of addAll is the rejection of the promise given to waitUntil.
AfterAddAll(outcome) == IF AllFetched(outcome) THEN "skipWaiting" ELSE "rejected"

InstallAddAll(v) ==
    /\ w[v].state = "installing" /\ w[v].pc = "addAll"
    /\ \E outcome \in FetchOutcomes :
          /\ store' = IF w[v].orphan THEN store
                      ELSE [store EXCEPT ![STATIC_CACHE(v)] = AddAll(@, outcome, deployed)]
          /\ w' = [w EXCEPT ![v].pc = AfterAddAll(outcome),
                            ![v].stored = AllFetched(outcome)]
    /\ UNCHANGED <<notif, sync, deployed, names, controller, ev>>

\* line 26: self.skipWaiting()
InstallSkipWaiting(v) ==
    /\ w[v].state = "installing" /\ w[v].pc = "skipWaiting"
    /\ w' = [w EXCEPT ![v].skip = TRUE, ![v].pc = "resolved"]
    /\ UNCHANGED <<notif, sync, deployed, names, store, controller, ev>>

\* The promise given to event.waitUntil (line 20) has settled: the host makes
\* the worker the waiting worker (replacing one that waited), or discards it.
InstallSettle(v) ==
    /\ w[v].state = "installing" /\ w[v].pc \in {"resolved", "rejected"}
    /\ w' = [u \in Versions |->
               IF u = v THEN
                  IF w[v].pc = "resolved"
                  THEN [w[v] EXCEPT !.state = "installed", !.pc = "idle"]
                  ELSE [w[v] EXCEPT !.state = "redundant"]
               ELSE IF w[v].pc = "resolved" /\ w[u].state = "installed"
                    THEN [w[u] EXCEPT !.state = "redundant"]
                    ELSE w[u]]
    /\ UNCHANGED <<notif, sync, deployed, names, store, controller, ev>>

(***************************************************************************)
(* sw.js lines 31-45: the activate listener.                               *)
(***************************************************************************)
\* The host activates the waiting worker: at once when there is no active
\* worker, and over an activated one when skipWaiting() was called.  The
\* worker it replaces becomes redundant and its script is aborted: a fetch
\* event it had not answered yet fails, while the store operations its
\* handlers had started stay in flight.  The activate event is dispatched
\* and line 34 starts caches.keys().
HostActivate(v) ==
    /\ w[v].state = "installed"
    /\ \A a \in Active : w[a].state = "activated" /\ w[v].skip
    /\ w' = [u \in Versions |->
               IF u = v THEN [w[v] EXCEPT !.state = "activating", !.pc = "keys"]
               ELSE IF u \in Active THEN [w[u] EXCEPT !.state = "redundant"]
               ELSE w[u]]
    /\ ev' = [s \in DOMAIN ev |->
                IF ev[s].v \in Active /\ ev[s].pc \notin {"free", "done"}
                THEN [ev[s] EXCEPT !.pc = "done", !.result = Killed]
                ELSE ev[s]]
    /\ sync' = IF sync.v \in Active /\ sync.pc \notin {"idle", "done"}
               THEN [sync EXCEPT !.pc = "done", !.result = "killed"]
               ELSE sync
    /\ UNCHANGED <<notif, deployed, names, store, controller>>

\* lines 36-41: the names the listener deletes.
StaleNames(all, v) ==
    {n \in all : n # STATIC_CACHE(v) /\ n # DYNAMIC_CACHE(v)}

\* line 34: caches.keys() resolves; lines 35-41 start one caches.delete()
\* for every other name.
ActivateKeys(v) ==
    /\ w[v].state = "activating" /\ w[v].pc = "keys"
    /\ w' = [w EXCEPT ![v].pc = "delete",
                      ![v].todel = StaleNames({names[i] : i \in DOMAIN names}, v)]
    /\ UNCHANGED <<notif, sync, deployed, names, store, controller, ev>>

\* line 39: one caches.delete(cacheName) completes.  A Cache object that a
\* handler still holds stays usable, detached from Cache Storage.
ActivateDelete(v, n) ==
    /\ w[v].state = "activating" /\ w[v].pc = "delete"
    /\ n \in w[v].todel
    /\ names' = Deleted(names, n)
    /\ store' = [store EXCEPT ![n] = EmptyCache]
    /\ w' = [u \in Versions |->
               IF u = v THEN [w[v] EXCEPT !.todel = @ \ {n}]
               ELSE IF w[u].pc = "addAll" /\ STATIC_CACHE(u) = n
                    THEN [w[u] EXCEPT !.orphan = TRUE]
                    ELSE w[u]]
    /\ ev' = [s \in DOMAIN ev |->
                IF ev[s].bg = "put" /\ DYNAMIC_CACHE(ev[s].v) = n
                THEN [ev[s] EXCEPT !.orphan = TRUE]
                ELSE ev[s]]
    /\ UNCHANGED <<notif, sync, deployed, controller>>

\* A claim that does not wait for the deletions.
DeletionsNotAwaited(todel) == TRUE

\* line 43: Promise.all has resolved when no deletion is left.
DeletionsDone(todel) == todel = {}

\* line 43: .then(() => self.clients.claim())
ActivateClaim(v) ==
    /\ w[v].state = "activating" /\ w[v].pc = "delete"
    /\ DeletionsDone(w[v].todel)
    /\ controller' = v
    /\ w' = [w EXCEPT ![v].pc = "claimed"]
    /\ UNCHANGED <<notif, sync, deployed, names, store, ev>>

\* The promise given to event.waitUntil (line 33) has settled.
ActivateSettle(v) ==
    /\ w[v].state = "activating" /\ w[v].pc = "claimed"
    /\ w' = [w EXCEPT ![v].state = "activated", ![v].pc = "idle"]
    /\ UNCHANGED <<notif, sync, deployed, names, store, controller, ev>>

Lifecycle ==
    \/ Deploy
    \/ \E v \in Versions : Register(v)
    \/ \E v \in Versions : InstallOpen(v)
    \/ \E v \in Versions : InstallAddAll(v)
    \/ \E v \in Versions : InstallSkipWaiting(v)
    \/ \E v \in Versions : InstallSettle(v)
    \/ \E v \in Versions : HostActivate(v)
    \/ \E v \in Versions : ActivateKeys(v)
    \/ \E v \in Versions, n \in CacheNames : ActivateDelete(v, n)
    \/ \E v \in Versions : ActivateClaim(v)
    \/ \E v \in Versions : ActivateSettle(v)

(***************************************************************************)
(* sw.js lines 48-118: the fetch listener.                                 *)
(***************************************************************************)
\* A guard that looks at the origin only.
BypassedOriginOnly(req) == ~Includes(req.url.origin, SelfOrigin)

\* line 53: the requests the listener leaves to the browser.
Bypassed(req) ==
    req.method # "GET" \/ ~Includes(req.url.origin, SelfOrigin)

\* line 58: the requests served network-first.
NetworkFirst(req) ==
    \/ StartsWith(req.url.path, <<"/api/">>)
    \/ StartsWith(req.url.path, <<"/health">>)
    \/ StartsWith(req.url.path, <<"/status">>)

\* What fetch(request) settles with: a transport failure, or a response of
\* the content the origin serves now, with a success status or not.
NetReplies(req) ==
    {Failure} \cup
    {Responded(Resp(ok, ct, deployed)) : ok \in BOOLEAN, ct \in ContentTypes(req)}

\* line 54: the listener has returned without respondWith and the browser
\* performs the request itself: it reaches the network ("browser") or it
\* does not ("unsent").  The worker sees neither outcome.
BrowserSends(req) == IF Bypassed(req) THEN {"browser", "unsent"} ELSE {""}

\* A slot whose event has its outcome and whose handler has nothing left.
Settled(e) == e.pc \in {"free", "done"} /\ e.bg = "none"

\* lines 48-80: a fetch event is dispatched to the activated worker v; the
\* listener returns without respondWith, or gives respondWith a promise and
\* starts its first operation (fetch on line 60, caches.match on line 81).
FetchDispatch(s, v, req) ==
    /\ Settled(ev[s])
    /\ \A t \in DOMAIN ev : t < s => ~Settled(ev[t])
    /\ w[v].state = "activated"
    /\ \E sent \in BrowserSends(req) :
          ev' = [ev EXCEPT ![s] =
             IF Bypassed(req)
             THEN [FreeSlot EXCEPT !.v = v, !.req = req, !.pc = "done",
                                   !.result = Bypass, !.via = sent]
             ELSE IF NetworkFirst(req)
             THEN [FreeSlot EXCEPT !.v = v, !.req = req, !.pc = "nf_fetch", !.net = 1]
             ELSE [FreeSlot EXCEPT !.v = v, !.req = req, !.pc = "cf_match"]]
    /\ UNCHANGED <<notif, sync, deployed, w, names, store, controller>>

\* A network-first branch that stores whatever the network answered.
NfStoreAny(r) == "open"

\* lines 63-68: the write the network-first branch starts, and does not wait
\* for, before it returns the response.
NfBackground(r) == IF r.ok THEN "open" ELSE "none"

\* lines 60-74: fetch(request) has settled in the network-first branch.
NfReply(s) ==
    /\ ev[s].pc = "nf_fetch"
    /\ \E reply \in NetReplies(ev[s].req) :
          ev' = [ev EXCEPT ![s] =
             IF reply.kind = "response"
             THEN [@ EXCEPT !.pc = "done", !.result = reply, !.via = "network",
                            !.bg = NfBackground(reply.resp), !.copy = reply.resp]
             ELSE [@ EXCEPT !.pc = "nf_match"]]
    /\ UNCHANGED <<notif, sync, deployed, w, names, store, controller>>

\* lines 110-113: the response the cache-first catch handler builds.
OfflineNotice == Resp(TRUE, <<"text/html">>, 0)

\* A catch handler that answers with a notice of its own when nothing is
\* stored.
NfSubstitute(all, st, key) ==
    IF Stored(all, st, key) THEN Match(all, st, key) ELSE Responded(OfflineNotice)

\* A catch handler that does not look into the store.
NfNoFallback(all, st, key) == Failure

\* line 73: what the catch handler returns once caches.match has resolved.
NfFallback(all, st, key) == Match(all, st, key)

NfMatch(s) ==
    /\ ev[s].pc = "nf_match"
    /\ ev' = [ev EXCEPT ![s].pc = "done", ![s].via = "cache",
                        ![s].result = NfFallback(names, store, KeyOf(ev[s].req))]
    /\ UNCHANGED <<notif, sync, deployed, w, names, store, controller>>

\* A cache-first branch that always asks the network.
CfNeverHit(m) == FALSE

\* line 83: if (response)
CfHit(m) == m.kind = "response"

\* lines 81-87: caches.match(request) has resolved in the cache-first branch.
CfMatch(s) ==
    /\ ev[s].pc = "cf_match"
    /\ LET m == Match(names, store, KeyOf(ev[s].req)) IN
          ev' = [ev EXCEPT ![s] =
             IF CfHit(m)
             THEN [@ EXCEPT !.pc = "done", !.result = m, !.via = "cache"]
             ELSE [@ EXCEPT !.pc = "cf_fetch", !.net = @ + 1]]
    /\ UNCHANGED <<notif, sync, deployed, w, names, store, controller>>

\* lines 97-99: the content types the cache-first branch stores.
Cacheable(ct) ==
    \/ Includes(ct, <<"text/html">>)
    \/ Includes(ct, <<"text/css">>)
    \/ Includes(ct, <<"application/javascript">>)

\* lines 90-103
CfBackground(r) == IF r.ok /\ Cacheable(r.ctype) THEN "open" ELSE "none"

\* A catch handler that takes every request for a page request.
AcceptsAnything(req) == TRUE

\* line 109
AcceptsHtml(req) == Includes(req.accept, <<"text/html">>)

\* lines 87-115: fetch(request) has settled in the cache-first branch.
CfReply(s) ==
    /\ ev[s].pc = "cf_fetch"
    /\ \E reply \in NetReplies(ev[s].req) :
          ev' = [ev EXCEPT ![s] =
             IF reply.kind = "response"
             THEN [@ EXCEPT !.pc = "done", !.result = reply, !.via = "network",
                            !.bg = CfBackground(reply.resp), !.copy = reply.resp]
             ELSE IF AcceptsHtml(ev[s].req)
             THEN [@ EXCEPT !.pc = "cf_offline"]
             ELSE [@ EXCEPT !.pc = "done", !.result = Failure, !.via = "network"]]
    /\ UNCHANGED <<notif, sync, deployed, w, names, store, controller>>

OfflineUrl == Url(SelfOrigin, <<"/offline.html">>)

\* line 110: caches.match('/offline.html') || new Response(...).  The left
\* operand is a promise, which is never falsy: the handler resolves with
\* what the match resolves with.
CfOffline(s) ==
    /\ ev[s].pc = "cf_offline"
    /\ ev' = [ev EXCEPT ![s].pc = "done", ![s].via = "offline",
                        ![s].result = Match(names, store, GetKey(OfflineUrl))]
    /\ UNCHANGED <<notif, sync, deployed, w, names, store, controller>>

\* lines 65 and 100: caches.open(DYNAMIC_CACHE) resolves.
DeferredOpen(s) ==
    /\ ev[s].bg = "open"
    /\ names' = Opened(names, DYNAMIC_CACHE(ev[s].v))
    /\ ev' = [ev EXCEPT ![s].bg = "put", ![s].orphan = FALSE]
    /\ UNCHANGED <<notif, sync, deployed, w, store, controller>>

\* lines 66 and 101: cache.put(request, responseClone)
DeferredPut(s) ==
    /\ ev[s].bg = "put"
    /\ store' = IF ev[s].orphan THEN store
                ELSE [store EXCEPT ![DYNAMIC_CACHE(ev[s].v)] =
                         Put(@, KeyOf(ev[s].req), ev[s].copy)]
    /\ ev' = [ev EXCEPT ![s].bg = "none", ![s].orphan = FALSE, ![s].copy = NoResp]
    /\ UNCHANGED <<notif, sync, deployed, w, names, controller>>

Idle(v) ==
    /\ \A s \in DOMAIN ev : ev[s].v = v => ev[s].pc \in {"free", "done"}
    /\ sync.v = v => sync.pc \in {"idle", "done"}

\* The host terminates worker v, which no event keeps alive: the store
\* operations its handlers started and did not wait for are never finished.
Terminate(v) ==
    /\ w[v].state \in {"activated", "redundant"}
    /\ Idle(v)
    /\ \E s \in DOMAIN ev : ev[s].v = v /\ ev[s].bg # "none"
    /\ ev' = [s \in DOMAIN ev |->
                IF ev[s].v = v
                THEN [ev[s] EXCEPT !.bg = "none", !.orphan = FALSE, !.copy = NoResp]
                ELSE ev[s]]
    /\ UNCHANGED <<notif, sync, deployed, w, names, store, controller>>

Fetching ==
    \/ \E s \in DOMAIN ev, v \in Versions, req \in Requests : FetchDispatch(s, v, req)
    \/ \E s \in DOMAIN ev : NfReply(s)
    \/ \E s \in DOMAIN ev : NfMatch(s)
    \/ \E s \in DOMAIN ev : CfMatch(s)
    \/ \E s \in DOMAIN ev : CfReply(s)
    \/ \E s \in DOMAIN ev : CfOffline(s)
    \/ \E s \in DOMAIN ev : DeferredOpen(s)
    \/ \E s \in DOMAIN ev : DeferredPut(s)
    \/ \E v \in Versions : Terminate(v)

(***************************************************************************)
(* sw.js lines 121-150: the sync listener and syncPendingRecipes.          *)
(***************************************************************************)
\* line 122: the tag the listener handles, and another tag.
RecipeSyncTag == "background-recipe-sync"
SyncTags == {RecipeSyncTag, "other-sync"}

\* A listener that handles every tag.
AnyTag(tag) == TRUE

\* line 122: event.tag === 'background-recipe-sync'
Recognized(tag) == tag = RecipeSyncTag

\* request.url of a stored request.
Href(u) == u.origin \o u.path

\* A scan that replays every stored request.
PendingAll(keys) == keys

\* lines 133-136: the stored requests the scan replays.
PendingRequests(keys) ==
    {k \in keys : Includes(Href(k.url), <<"/recipes/create">>) /\ k.method = "POST"}

\* lines 121-129: a sync event is dispatched to the activated worker v.  For
\* the tag of line 122 the listener gives waitUntil the promise of
\* syncPendingRecipes(), which starts caches.open(DYNAMIC_CACHE); for any
\* other tag it returns.
SyncDispatch(v, tag) ==
    /\ sync.pc \in {"idle", "done"}
    /\ w[v].state = "activated"
    /\ sync' = IF Recognized(tag)
               THEN [NoSync EXCEPT !.v = v, !.tag = tag, !.pc = "open",
                                   !.repeat = (sync.v = v /\ sync.result = "resolved")]
               ELSE [NoSync EXCEPT !.v = v, !.tag = tag, !.pc = "done", !.result = "ignored"]
    /\ UNCHANGED <<notif, deployed, w, names, store, controller, ev>>

\* A function that lets an error of the store reach its caller.
ScanRejects(threw) == IF threw THEN "rejected" ELSE "resolved"

\* lines 127-150: what the promise of syncPendingRecipes() settles with.  The
\* body is one try block: the function returns after the loop, or after the
\* catch block of lines 147-149 when an operation outside the loop threw.
ScanSettles(threw) == "resolved"

\* line 129: caches.open(DYNAMIC_CACHE) resolves and line 130 starts
\* cache.keys(), or the store cannot be read and the operation rejects:
\* lines 147-149 catch the error.
SyncOpen ==
    /\ sync.pc = "open"
    /\ \/ /\ names' = Opened(names, DYNAMIC_CACHE(sync.v))
          /\ sync' = [sync EXCEPT !.pc = "keys"]
       \/ /\ names' = names
          /\ sync' = [sync EXCEPT !.pc = "done", !.threw = TRUE,
                                  !.result = ScanSettles(TRUE)]
    /\ UNCHANGED <<notif, deployed, w, store, controller, ev>>

\* lines 130-139: cache.keys() resolves, the pending requests are selected
\* and the loop starts; with nothing to replay the function returns.
SyncKeys ==
    /\ sync.pc = "keys"
    /\ LET pending == PendingRequests(DOMAIN store[DYNAMIC_CACHE(sync.v)]) IN
          sync' = [sync EXCEPT !.found = pending, !.todo = pending,
                               !.pc = IF pending = {} THEN "done" ELSE "replay",
                               !.result = IF pending = {} THEN ScanSettles(FALSE) ELSE ""]
    /\ UNCHANGED <<notif, deployed, w, names, store, controller, ev>>

\* lines 140-145: what follows await fetch(request): cache.delete(request)
\* when the promise fulfilled, with any status; the catch block when it
\* rejected.
AfterReplay(reply) == IF reply.kind = "response" THEN "delete" ELSE "next"

\* lines 139-146: where the loop stands when todo is what is left.
LoopAt(todo) == IF todo = {} THEN "done" ELSE "replay"

\* lines 139-145: the loop takes the next pending request k (cache.keys()
\* gives them in the order they were stored; the model takes any order) and
\* fetch(k) settles.
SyncFetch(k) ==
    /\ sync.pc = "replay"
    /\ k \in sync.todo
    /\ \E reply \in NetReplies(k) :
          LET after == AfterReplay(reply)
              left == sync.todo \ {k}
          IN  sync' = [sync EXCEPT
                 !.todo = left,
                 !.sent = @ \cup {k},
                 !.confirmed = IF reply.kind = "response" /\ reply.resp.ok
                                THEN @ \cup {k} ELSE @,
                 !.cur = IF after = "delete" THEN {k} ELSE {},
                 !.pc = IF after = "delete" THEN "delete" ELSE LoopAt(left),
                 !.result = IF after = "next" /\ left = {}
                           THEN ScanSettles(FALSE) ELSE ""]
    /\ UNCHANGED <<notif, deployed, w, names, store, controller, ev>>

\* cache.delete(k)
Without(cache, k) == [x \in DOMAIN cache \ {k} |-> cache[x]]

\* line 142: cache.delete(request) resolves.
SyncDelete ==
    /\ sync.pc = "delete"
    /\ \E k \in sync.cur :
          /\ store' = [store EXCEPT ![DYNAMIC_CACHE(sync.v)] = Without(@, k)]
          /\ sync' = [sync EXCEPT !.cur = {}, !.removed = @ \cup {k},
                                  !.pc = LoopAt(sync.todo),
                                  !.result = IF sync.todo = {} THEN ScanSettles(FALSE) ELSE ""]
    /\ UNCHANGED <<notif, deployed, w, names, controller, ev>>

\* The sync listener up to the selection of the pending requests.
Syncing ==
    \/ \E v \in Versions, tag \in SyncTags : SyncDispatch(v, tag)
    \/ SyncOpen
    \/ SyncKeys

\* The replay loop.
Replaying ==
    \/ \E k \in sync.todo : SyncFetch(k)
    \/ SyncDelete

(***************************************************************************)
(* sw.js lines 153-193: the push and notificationclick listeners.          *)
(***************************************************************************)
RecipeUrl == <<"/recipes/", "42">>

\* The payloads the push service delivers.
Payloads ==
    {NoPayload, Payload("text", "", "", NoUrl)}
    \cup {Payload("json", t, "Your recipe is ready", u) :
             t \in {"Ready", "Reminder"}, u \in {NoUrl, RecipeUrl}}

\* A listener that does not look at event.data.
AnyData(p) == TRUE

\* line 154: if (event.data)
HasData(p) == p.kind # "none"

\* line 155: event.data.json() returns the parsed object, or throws when the
\* text is not JSON.
JsonParses(p) == p.kind = "json"

\* A notification with a title of its own.
NotificationUntitled(p) ==
    [title |-> "AI Recipe Bot", body |-> p.body,
     icon |-> "/static/icons/icon-192x192.png",
     badge |-> "/static/icons/icon-72x72.png",
     url |-> NoUrl]

\* lines 155-176: the notification showNotification(data.title, options) is
\* asked to display.  options.data is {dateOfArrival, primaryKey}: it has no
\* url, whatever the payload carries.
Notification(p) ==
    [title |-> p.title, body |-> p.body,
     icon |-> "/static/icons/icon-192x192.png",
     badge |-> "/static/icons/icon-72x72.png",
     url |-> NoUrl]

\* lines 153-180: a push event is dispatched to the activated worker v.  The
\* listener returns (no payload), throws (json() on a text that is not
\* JSON), or gives waitUntil the promise of showNotification().
PushDispatch(v, p) ==
    /\ notif.push = "idle"
    /\ notif.pushes < MaxPushes
    /\ w[v].state = "activated"
    /\ notif' = IF ~HasData(p)
                THEN [notif EXCEPT !.pushes = @ + 1, !.data = p, !.outcome = "skipped"]
                ELSE IF ~JsonParses(p)
                THEN [notif EXCEPT !.pushes = @ + 1, !.data = p, !.outcome = "threw"]
                ELSE [notif EXCEPT !.pushes = @ + 1, !.data = p, !.outcome = "",
                                   !.push = "show", !.note = Notification(p)]
    /\ UNCHANGED <<deployed, w, names, store, controller, ev, sync>>

\* line 179: showNotification() resolves: the notification is displayed.
PushShow ==
    /\ notif.push = "show"
    /\ notif' = [notif EXCEPT !.push = "idle", !.outcome = "shown", !.note = NoNote,
                              !.shown = Append(@, Shown(notif.note, notif.data))]
    /\ UNCHANGED <<deployed, w, names, store, controller, ev, sync>>

\* event.action: an action button of lines 165-175, or '' for a click on the
\* notification itself.
Actions == {"view", "dismiss", ""}

\* A listener that opens a window for every interaction.
OpensAlways(action) == TRUE

\* line 188: if (event.action === 'view')
Opens(action) == action = "view"

\* line 190: event.notification.data.url || '/'
Target(note) == IF note.url # NoUrl THEN note.url ELSE <<"/">>

\* Sequence q without its i-th element.
Remove(q, i) == SubSeq(q, 1, i - 1) \o SubSeq(q, i + 1, Len(q))

\* lines 185-192: a notificationclick event for the i-th notification:
\* line 186 closes it; for the action of line 188 the listener gives
\* waitUntil the promise of clients.openWindow().
NotificationClick(i, action) ==
    /\ notif.click = "idle"
    /\ i \in DOMAIN notif.shown
    /\ notif' = [notif EXCEPT
                    !.shown = Remove(@, i),
                    !.clicked = notif.shown[i],
                    !.action = action,
                    !.click = IF Opens(action) THEN "open" ELSE "idle",
                    !.target = IF Opens(action) THEN Target(notif.shown[i].note) ELSE NoUrl]
    /\ UNCHANGED <<deployed, w, names, store, controller, ev, sync>>

\* line 190: clients.openWindow() resolves.
ClickOpen ==
    /\ notif.click = "open"
    /\ notif' = [notif EXCEPT !.click = "idle", !.target = NoUrl,
                              !.windows = Append(@, notif.target)]
    /\ UNCHANGED <<deployed, w, names, store, controller, ev, sync>>

Notifying ==
    \/ \E v \in Versions, p \in Payloads : PushDispatch(v, p)
    \/ PushShow
    \/ \E i \in 1..MaxPushes, action \in Actions : NotificationClick(i, action)
    \/ ClickOpen

\* No handler of sw.js stores a request the scan selects (C16): from Init
\* the loop has nothing to replay, and Next leaves it out.  The push and
\* notificationclick listeners share no state with the other listeners and
\* run under PushSpec.
Next == Lifecycle \/ Fetching \/ Syncing

Spec == Init /\ [][Next]_vars

(***************************************************************************)
(* syncPendingRecipes on a runtime partition that holds captured requests. *)
(* sw.js has no statement that stores one, so the scan is run on the       *)
(* partitions a capture would leave: SyncInit draws the content of the     *)
(* runtime partition of the activated worker from a bounded set.           *)
(***************************************************************************)
CreateUrl == Url(SelfOrigin, <<"/recipes/create">>)
DraftUrl == Url(SelfOrigin, <<"/recipes/create", "/draft">>)
ArchiveUrl == Url(SelfOrigin, <<"/archive", "/recipes/create">>)

\* Stored requests: two GET entries the fetch listener stores (an API
\* answer, the recipe form), two captured POST requests, and a POST request
\* to another endpoint whose path ends with the path of the creation one.
RuntimeKeys ==
    { GetKey(Url(SelfOrigin, <<"/api/", "status">>)), GetKey(CreateUrl),
      Key("POST", CreateUrl), Key("POST", DraftUrl), Key("POST", ArchiveUrl) }

RuntimeContents ==
    {[k \in K |-> Resp(TRUE, <<"application/json">>, 1)] : K \in SUBSET RuntimeKeys}

SyncInit ==
    /\ deployed = 1
    /\ w = [v \in Versions |->
              IF v = 1
              THEN [NewWorker EXCEPT !.state = "activated", !.skip = TRUE, !.stored = TRUE]
              ELSE NewWorker]
    /\ controller = 1
    /\ ev = [s \in Slots |-> FreeSlot]
    /\ sync = NoSync
    /\ notif = NoNotif
    /\ \E content \in RuntimeContents :
          /\ store = [n \in CacheNames |->
                        IF n = STATIC_CACHE(1)
                        THEN AddAll(EmptyCache, [i \in DOMAIN STATIC_ASSETS |-> "ok"], 1)
                        ELSE IF n = DYNAMIC_CACHE(1) THEN content
                        ELSE EmptyCache]
          /\ \/ names = <<STATIC_CACHE(1), DYNAMIC_CACHE(1)>>
             \/ names = <<STATIC_CACHE(1)>> /\ DOMAIN content = {}

\* The captured requests of a partition.
QueueItems(cache) == {k \in DOMAIN cache : k.method = "POST"}

SyncNext == Syncing \/ Replaying

SyncSpec == SyncInit /\ [][SyncNext]_vars

(***************************************************************************)
(* The push and notificationclick listeners of the activated worker.       *)
(***************************************************************************)
PushInit == SyncInit /\ names = <<STATIC_CACHE(1)>>

PushSpec == PushInit /\ [][Notifying]_vars

(***************************************************************************)
(* The listeners of the activated worker that use Cache Storage and the    *)
(* network, running together: fetch and sync (with the replay loop), on    *)
(* the runtime partitions of SyncInit.                                     *)
(***************************************************************************)
AgentNext == Fetching \/ Syncing \/ Replaying

AgentSpec == SyncInit /\ [][AgentNext]_vars

(***************************************************************************)
(* The fetch listener of the activated worker with one fetch event more in *)
(* flight than under Spec, while the origin deploys new content.           *)
(***************************************************************************)
ConcInit ==
    /\ deployed = 1
    /\ w = [v \in Versions |->
              IF v = 1
              THEN [NewWorker EXCEPT !.state = "activated", !.skip = TRUE, !.stored = TRUE]
              ELSE NewWorker]
    /\ controller = 1
    /\ ev = [s \in 1..(MaxInFlight + 1) |-> FreeSlot]
    /\ sync = NoSync
    /\ notif = NoNotif
    /\ names = <<STATIC_CACHE(1)>>
    /\ store = [n \in CacheNames |->
                  IF n = STATIC_CACHE(1)
                  THEN AddAll(EmptyCache, [i \in DOMAIN STATIC_ASSETS |-> "ok"], 1)
                  ELSE EmptyCache]

ConcNext == Fetching \/ Deploy

ConcSpec == ConcInit /\ [][ConcNext]_vars


(***************************************************************************)
(* The properties.                                                         *)
(***************************************************************************)
Precached(v) ==
    Has(names, STATIC_CACHE(v)) /\ ManifestUrls \subseteq DOMAIN store[STATIC_CACHE(v)]

\* C1: install atomicity.  Once cache.addAll has failed for the install of a
\* version (one fetch at least failed), the precache partition of that
\* version holds no entry: nothing of that install is in the store.
C1_InstallAtomicity ==
    \A v \in Versions :
        w[v].pc = "rejected" => DOMAIN store[STATIC_CACHE(v)] = {}

\* An install has failed and was discarded; its partition was opened.
C1_Witness ==
    \E v \in Versions :
        /\ w[v].state = "redundant" /\ w[v].pc = "rejected" /\ ~w[v].stored
        /\ Has(names, STATIC_CACHE(v))

\* C2: a failed install leaves the previous version intact and serving.  The
\* steps of a failing install (addAll failing, the host discarding the
\* worker) change no partition, no entry, no other worker, no fetch event
\* and not the controller, and the worker ends redundant; a worker starts to
\* activate only when its own install has stored the whole manifest.
C2_FailedInstallKeepsPrevious ==
    [][\A v \in Versions :
          /\ ( /\ w[v].state = "installing"
               /\ w'[v] # w[v]
               /\ w'[v].pc = "rejected" )
             => /\ names' = names /\ store' = store
                /\ ev' = ev /\ controller' = controller
                /\ \A u \in Versions \ {v} : w'[u] = w[u]
                /\ w'[v].state \in {"installing", "redundant"}
          /\ (w[v].state # "activating" /\ w'[v].state = "activating")
             => w[v].stored
      ]_vars

\* The install of a version failed while an older version, with its whole
\* precache, is the activated worker.
C2_Witness ==
    \E v, u \in Versions :
        /\ u < v
        /\ w[v].state = "redundant" /\ w[v].pc = "rejected"
        /\ w[u].state = "activated" /\ Precached(u)

\* C3: in every state where a worker that was not replaced has signalled
\* readiness (skipWaiting), the precache partition of its version exists and
\* holds an entry for every URL of the manifest.
C3_ReadyImpliesPrecached ==
    \A v \in Versions :
        (w[v].skip /\ w[v].state \in {"installing", "installed", "activating", "activated"})
        => Precached(v)

\* C4: when the activate handler of a version has completed, no partition
\* named with an older version exists.
C4_NoStalePartition ==
    \A v, u \in Versions :
        (u < v /\ w[v].state = "activating" /\ w[v].pc = "claimed")
        => ~Has(names, STATIC_CACHE(u)) /\ ~Has(names, DYNAMIC_CACHE(u))

\* C5: the activate handler calls clients.claim() only when every deletion
\* it started has completed, and it never deletes the precache or the
\* runtime partition of its own version.
C5_ClaimAfterCleanup ==
    \A v \in Versions :
        /\ w[v].todel \cap {STATIC_CACHE(v), DYNAMIC_CACHE(v)} = {}
        /\ (w[v].pc = "claimed" \/ controller = v) => w[v].todel = {}

\* The second version has claimed the clients after it deleted the precache
\* of the first.
C5_Witness ==
    \E v, u \in Versions :
        /\ u < v /\ w[v].pc = "claimed" /\ controller = v
        /\ w[u].state = "redundant" /\ w[u].stored
        /\ ~Has(names, STATIC_CACHE(u)) /\ Precached(v)

\* C6: a step of an installing worker changes no partition of the active
\* version, and a partition is deleted only by a step of the activate
\* handler of a worker whose own precache partition is fully populated.
C6_InstallNeverMutatesServing ==
    [][/\ \A v \in Versions :
             (w[v].state = "installing" /\ w'[v] # w[v])
             => \A a \in Active \ {v} :
                   /\ store'[STATIC_CACHE(a)] = store[STATIC_CACHE(a)]
                   /\ store'[DYNAMIC_CACHE(a)] = store[DYNAMIC_CACHE(a)]
                   /\ Has(names', STATIC_CACHE(a)) = Has(names, STATIC_CACHE(a))
                   /\ Has(names', DYNAMIC_CACHE(a)) = Has(names, DYNAMIC_CACHE(a))
       /\ (\E n \in CacheNames : Has(names, n) /\ ~Has(names', n))
          => \E v \in Versions :
                /\ w[v].state = "activating" /\ w[v].pc = "delete"
                /\ w'[v].todel # w[v].todel
                /\ Precached(v)
      ]_vars

\* C7: a worker is waiting or active only when its install stored the whole
\* manifest and signalled readiness; a worker whose install failed is
\* installing or redundant and has no fetch event; a fetch event belongs to a
\* worker whose install succeeded and whose activate handler has completed.
C7_LifecycleOrder ==
    \A v \in Versions :
        /\ w[v].state \in {"installed", "activating", "activated"}
           => w[v].stored /\ w[v].skip
        /\ w[v].pc = "rejected"
           => w[v].state \in {"installing", "redundant"} /\ \A s \in Slots : ev[s].v # v
        /\ \A s \in Slots :
              ev[s].v = v
              => /\ w[v].stored /\ w[v].state \in {"activated", "redundant"}
                 /\ w[v].pc = "idle" /\ w[v].todel = {}

\* A version intercepts a request while the install of another one failed.
C7_Witness ==
    \E v, u \in Versions, s \in Slots :
        /\ ev[s].v = v /\ ev[s].pc \notin {"free", "done"} /\ w[v].state = "activated"
        /\ w[u].pc = "rejected" /\ w[u].state = "redundant"

\* C8: for an intercepted request whose method is not GET or whose origin
\* differs from the worker's own origin, the handler gives no response of its
\* own, makes no network call and starts no store write.
C8_BypassUntouched ==
    \A s \in Slots :
        ( /\ ev[s].pc # "free"
          /\ (ev[s].req.method # "GET" \/ ev[s].req.url.origin # SelfOrigin) )
        => ev[s].result = Bypass /\ ev[s].net = 0 /\ ev[s].bg = "none"

\* C9: when a network-first request has been given the successful response
\* of the network, a copy of that response is in the runtime partition under
\* the request's URL.
C9_StoredBeforeReturned ==
    \A s \in Slots :
        ( /\ NetworkFirst(ev[s].req) /\ ev[s].via = "network"
          /\ ev[s].result.kind = "response" /\ ev[s].result.resp.ok )
        => /\ Has(names, DYNAMIC_CACHE(ev[s].v))
           /\ KeyOf(ev[s].req) \in DOMAIN store[DYNAMIC_CACHE(ev[s].v)]
           /\ store[DYNAMIC_CACHE(ev[s].v)][KeyOf(ev[s].req)] = ev[s].result.resp

\* C10: when the network fetch of a network-first request has failed and a
\* response is stored under the request's URL at the time the handler looks
\* it up, the handler resolves with a stored response, not with an error.
C10_NetworkFirstFallback ==
    [][\A s \in Slots :
          ( /\ ev[s].pc = "nf_match" /\ ev'[s].pc = "done"
            /\ ev'[s].result.kind # "killed"
            /\ Stored(names, store, KeyOf(ev[s].req)) )
          => /\ ev'[s].result.kind = "response"
             /\ \E i \in DOMAIN names :
                   /\ KeyOf(ev[s].req) \in DOMAIN store[names[i]]
                   /\ ev'[s].result.resp = store[names[i]][KeyOf(ev[s].req)]
      ]_vars

\* A network-first request was answered from the store.
C10_Witness ==
    \E s \in Slots :
        /\ ev[s].pc = "done" /\ ev[s].via = "cache" /\ NetworkFirst(ev[s].req)
        /\ ev[s].result.kind = "response"

\* C11: when the network fetch of a network-first request has failed and no
\* partition holds an entry under the request's key at the time the handler
\* looks it up, the handler gives the caller a failure, not a response, and
\* the step changes no partition and no entry.
C11_NetworkFirstNoCopy ==
    [][\A s \in Slots :
          ( /\ ev[s].pc = "nf_match" /\ ev'[s].pc = "done"
            /\ ev'[s].result.kind # "killed"
            /\ ~Stored(names, store, KeyOf(ev[s].req)) )
          => /\ ev'[s].result = Failure
             /\ names' = names /\ store' = store
      ]_vars

\* A network-first request failed on the network and in the store.
C11_Witness ==
    \E s \in Slots :
        /\ ev[s].pc = "done" /\ ev[s].via = "cache" /\ NetworkFirst(ev[s].req)
        /\ ev[s].result = Failure /\ ev[s].net = 1

\* C12: when the lookup of a cache-first request resolves while a partition
\* holds an entry under the request's key, the handler answers with a stored
\* response of that key and has made no network call.
C12_CacheFirstHit ==
    [][\A s \in Slots :
          ( /\ ev[s].pc = "cf_match" /\ ev'[s] # ev[s]
            /\ ev'[s].result.kind # "killed"
            /\ Stored(names, store, KeyOf(ev[s].req)) )
          => /\ ev'[s].pc = "done" /\ ev'[s].net = 0
             /\ ev'[s].result.kind = "response"
             /\ \E i \in DOMAIN names :
                   /\ KeyOf(ev[s].req) \in DOMAIN store[names[i]]
                   /\ ev'[s].result.resp = store[names[i]][KeyOf(ev[s].req)]
      ]_vars

\* A cache-first request was answered from the store without a network call.
C12_Witness ==
    \E s \in Slots :
        /\ ev[s].pc = "done" /\ ev[s].via = "cache" /\ ~NetworkFirst(ev[s].req)
        /\ ev[s].result.kind = "response" /\ ev[s].net = 0

\* C13: when a cache-first request that missed the store has been given the
\* response of the network, exactly one network call was made; a successful
\* response of an HTML, CSS or JavaScript content type is in the runtime
\* partition under the request's key; for a successful response of another
\* content type no store write was started.
C13_MissStoredBeforeReturned ==
    \A s \in Slots :
        ( /\ ev[s].req # NoReq /\ ~NetworkFirst(ev[s].req)
          /\ ev[s].via = "network" /\ ev[s].result.kind = "response" )
        => /\ ev[s].net = 1
           /\ (ev[s].result.resp.ok /\ Cacheable(ev[s].result.resp.ctype))
              => /\ Has(names, DYNAMIC_CACHE(ev[s].v))
                 /\ KeyOf(ev[s].req) \in DOMAIN store[DYNAMIC_CACHE(ev[s].v)]
                 /\ store[DYNAMIC_CACHE(ev[s].v)][KeyOf(ev[s].req)] = ev[s].result.resp
           /\ (ev[s].result.resp.ok /\ ~Cacheable(ev[s].result.resp.ctype))
              => ev[s].bg = "none"

\* C14: every entry of every partition holds a response with a success
\* status.
C14_OnlySuccessStored ==
    \A n \in CacheNames : \A k \in DOMAIN store[n] : store[n][k].ok

\* The network answered a network-first request with a non-success status
\* while the runtime partition holds an entry under the request's key.
C14_Witness ==
    \E s \in Slots :
        /\ ev[s].pc = "done" /\ ev[s].via = "network" /\ ev[s].bg = "none"
        /\ ev[s].result.kind = "response" /\ ~ev[s].result.resp.ok
        /\ Has(names, DYNAMIC_CACHE(ev[s].v))
        /\ KeyOf(ev[s].req) \in DOMAIN store[DYNAMIC_CACHE(ev[s].v)]

\* C15: a cache-first request that accepts text/html, missed the store and
\* failed on the network is answered with the built-in offline notice.
C15_OfflineNotice ==
    \A s \in Slots :
        (ev[s].pc = "done" /\ ev[s].via = "offline")
        => ev[s].result = Responded(OfflineNotice)

\* C16: every key of every partition is a GET request.
C16_OnlyGetKeys ==
    \A n \in CacheNames : \A k \in DOMAIN store[n] : k.method = "GET"

\* A POST request was intercepted while the runtime partition of the worker
\* holds entries.
C16_Witness ==
    \E s \in Slots :
        /\ ev[s].pc = "done" /\ ev[s].req.method = "POST" /\ ev[s].result = Bypass
        /\ Has(names, DYNAMIC_CACHE(ev[s].v))
        /\ DOMAIN store[DYNAMIC_CACHE(ev[s].v)] # {}

\* C17: when a POST to the recipe-creation endpoint (a request the scan
\* would select) was intercepted and did not reach the network, the runtime
\* partition of the worker holds that request as a queue item.
C17_FailedCreationCaptured ==
    \A s \in Slots :
        ( /\ ev[s].pc = "done" /\ ev[s].via = "unsent"
          /\ PendingRequests({KeyOf(ev[s].req)}) # {}
          /\ w[ev[s].v].state = "activated" )
        => /\ Has(names, DYNAMIC_CACHE(ev[s].v))
           /\ KeyOf(ev[s].req) \in DOMAIN store[DYNAMIC_CACHE(ev[s].v)]

C21_ReplayOnlyOnRecipeSync ==
    [][/\ (sync'.sent # sync.sent \/ sync'.removed # sync.removed) /\ sync'.sent # {}
          => /\ sync.tag = RecipeSyncTag /\ sync'.tag = RecipeSyncTag
             /\ sync.pc \in {"replay", "delete"}
             /\ ev' = ev
       /\ (sync' # sync /\ sync'.tag # RecipeSyncTag)
          => /\ sync'.pc \in {"idle", "done"}
             /\ sync'.found = {} /\ sync'.sent = {} /\ sync'.removed = {}
             /\ names' = names /\ store' = store
       /\ ev' # ev => sync' = sync
      ]_vars

\* A sync event with another tag was ignored while the runtime partition
\* holds a captured request and a fetch handler is running.
C21_Witness ==
    /\ sync.tag = "other-sync" /\ sync.result = "ignored"
    /\ QueueItems(store[DYNAMIC_CACHE(sync.v)]) # {}
    /\ \E s \in Slots : ev[s].pc \notin {"free", "done"}

\* C22: the listener of a push event with a well-formed payload asks for the
\* display of one notification with the title and body of the payload and
\* the fixed icon and badge; the step that displays adds that notification,
\* and only it, to the notifications displayed.
C22_PushRendering ==
    [][/\ (notif'.pushes # notif.pushes /\ notif'.data.kind = "json")
          => /\ notif'.push = "show" /\ notif'.shown = notif.shown
             /\ notif'.note.title = notif'.data.title
             /\ notif'.note.body = notif'.data.body
             /\ notif'.note.icon = "/static/icons/icon-192x192.png"
             /\ notif'.note.badge = "/static/icons/icon-72x72.png"
       /\ Len(notif'.shown) > Len(notif.shown)
          => /\ notif.push = "show" /\ notif'.push = "idle"
             /\ notif'.shown = Append(notif.shown, Shown(notif.note, notif.data))
             /\ notif.note.title = notif.data.title
             /\ notif.note.body = notif.data.body
      ]_vars

\* The notification of a payload titled "Ready" is displayed.
C22_Witness ==
    /\ notif.outcome = "shown" /\ notif.data.title = "Ready"
    /\ Len(notif.shown) = 1 /\ notif.shown[1].note.title = "Ready"
    /\ notif.shown[1].note.body = "Your recipe is ready"

\* C23: the listener of a push event without payload ends without an
\* error, displays nothing and changes nothing else.
C23_PushWithoutPayload ==
    [][(notif'.pushes # notif.pushes /\ notif'.data.kind = "none")
       => /\ notif'.outcome = "skipped" /\ notif'.push = "idle"
          /\ notif'.shown = notif.shown /\ notif'.windows = notif.windows
          /\ notif'.click = notif.click
          /\ UNCHANGED <<deployed, w, names, store, controller, ev, sync>>
      ]_vars

\* A push event without payload was handled while a notification is
\* displayed.
C23_Witness ==
    /\ notif.outcome = "skipped" /\ notif.data.kind = "none"
    /\ notif.shown # <<>>

\* C24: the listener of a push event whose payload is not JSON ends
\* without throwing and displays nothing.
C24_MalformedPayloadSkipped ==
    (notif.push = "idle" /\ notif.data.kind = "text")
    => notif.outcome = "skipped"

\* C25: the "view" action on the notification of a payload with data.url
\* opens a window at that URL.
C25_UrlCarriedThrough ==
    (notif.click = "open" /\ notif.action = "view"
     /\ notif.clicked.data.url # NoUrl)
    => notif.target = notif.clicked.data.url

\* C26: the listener of a notificationclick event with the "view" action,
\* or with no action, closes the notification and opens a window at the URL
\* of the notification's data, at '/' when the data has none.
C26_ViewOrClickOpens ==
    [][(Len(notif'.shown) < Len(notif.shown) /\ notif'.action \in {"view", ""})
       => /\ Len(notif'.shown) = Len(notif.shown) - 1
          /\ notif'.click = "open"
          /\ notif'.target = IF notif'.clicked.note.url # NoUrl
                             THEN notif'.clicked.note.url ELSE <<"/">>
      ]_vars

\* C27: the listener of a notificationclick event with the "dismiss"
\* action closes the notification, opens no window and changes nothing
\* else.
C27_DismissOnlyCloses ==
    [][(Len(notif'.shown) < Len(notif.shown) /\ notif'.action = "dismiss")
       => /\ Len(notif'.shown) = Len(notif.shown) - 1
          /\ notif'.click = "idle" /\ notif'.target = NoUrl
          /\ notif'.windows = notif.windows
          /\ UNCHANGED <<deployed, w, names, store, controller, ev, sync>>
      ]_vars

\* The only notification displayed was dismissed and no window was opened.
C27_Witness ==
    /\ notif.action = "dismiss" /\ notif.click = "idle"
    /\ notif.clicked.note # NoNote /\ notif.shown = <<>>
    /\ notif.windows = <<>>

\* C28: when the operation a handler registered with its event has settled,
\* nothing the handler started is pending: no store write of a fetch
\* handler, no deletion of the activate handler, no replay or removal of the
\* scan, and the precache of an install that resolved is stored.
C28_LifetimeExtended ==
    /\ \A s \in Slots : ev[s].pc = "done" => ev[s].bg = "none"
    /\ \A v \in Versions :
          /\ w[v].pc = "claimed" => w[v].todel = {}
          /\ w[v].pc = "resolved" => w[v].stored
    /\ (sync.pc = "done" /\ sync.result = "resolved")
       => sync.todo = {} /\ sync.cur = {}

\* C29: when the network answers a network-first request with a
\* non-success status, the handler gives the caller that response, starts
\* no store write, and the step changes no partition and no entry.
C29_NonSuccessReturnedAsIs ==
    [][\A s \in Slots :
          ( /\ ev[s].pc = "nf_fetch" /\ ev'[s].pc = "done"
            /\ ev'[s].result.kind = "response" /\ ~ev'[s].result.resp.ok )
          => /\ ev'[s].via = "network" /\ ev'[s].bg = "none"
             /\ names' = names /\ store' = store
      ]_vars

\* A network-first request was answered with the non-success response of
\* the network while a successful response is stored under its key.
C29_Witness ==
    \E s \in Slots :
        /\ ev[s].pc = "done" /\ ev[s].via = "network" /\ NetworkFirst(ev[s].req)
        /\ ev[s].result.kind = "response" /\ ~ev[s].result.resp.ok
        /\ Stored(names, store, KeyOf(ev[s].req))
        /\ Match(names, store, KeyOf(ev[s].req)).resp.ok

\* C30: when the network fetch of a cache-first request that missed the
\* store fails and the request's Accept header does not include text/html,
\* the handler gives the caller a failure and the step changes no partition
\* and no entry.
C30_AssetFailureSurfaced ==
    [][\A s \in Slots :
          ( /\ ev[s].pc = "cf_fetch" /\ ev'[s] # ev[s]
            /\ ev'[s].result.kind \notin {"response", "killed"}
            /\ ~Includes(ev[s].req.accept, <<"text/html">>) )
          => /\ ev'[s].pc = "done" /\ ev'[s].result = Failure
             /\ ev'[s].bg = "none"
             /\ names' = names /\ store' = store
      ]_vars

\* An image request failed in the store and on the network.
C30_Witness ==
    \E s \in Slots :
        /\ ev[s].pc = "done" /\ ev[s].via = "network" /\ ev[s].result = Failure
        /\ ~NetworkFirst(ev[s].req) /\ ev[s].req.accept = AcceptImage
        /\ ev[s].net = 1

C32_ReplayFailureNotSurfaced ==
    /\ sync.result # "rejected"
    /\ (sync.pc = "done" /\ sync.tag = RecipeSyncTag) => sync.result = "resolved"

\* A scan selected two requests at least, every replay failed, nothing was
\* removed, and the scan resolved.
C32_Witness ==
    /\ sync.pc = "done" /\ sync.result = "resolved" /\ ~sync.threw
    /\ Cardinality(sync.found) >= 2 /\ sync.sent = sync.found
    /\ sync.confirmed = {} /\ sync.removed = {}
    /\ sync.found \subseteq DOMAIN store[DYNAMIC_CACHE(sync.v)]

C34_LastWriteWins ==
    [][/\ \A s \in DOMAIN ev :
             ( /\ ev[s].bg = "put" /\ ev'[s].bg = "none"
               /\ ~ev[s].orphan /\ ~Idle(ev[s].v) )
             => /\ KeyOf(ev[s].req) \in DOMAIN store'[DYNAMIC_CACHE(ev[s].v)]
                /\ store'[DYNAMIC_CACHE(ev[s].v)][KeyOf(ev[s].req)] = ev[s].copy
       /\ \A n \in CacheNames :
          \A k \in DOMAIN store'[n] :
             (k \notin DOMAIN store[n] \/ store'[n][k] # store[n][k])
             => /\ \E s \in DOMAIN ev :
                      /\ ev[s].bg = "put" /\ ev'[s].bg = "none"
                      /\ n = DYNAMIC_CACHE(ev[s].v) /\ k = KeyOf(ev[s].req)
                      /\ store'[n][k] = ev[s].copy
                /\ \A m \in CacheNames :
                      \A j \in DOMAIN store[m] :
                         <<m, j>> # <<n, k>>
                         => j \in DOMAIN store'[m] /\ store'[m][j] = store[m][j]
      ]_vars

\* Two fetch events for one key are in flight together: the response of one
\* is stored, the write of the other, with another response, is pending.
C34_Witness ==
    \E s, t \in DOMAIN ev :
        /\ s # t /\ ev[s].req = ev[t].req /\ ev[s].v = ev[t].v
        /\ ev[s].pc = "done" /\ ev[s].via = "network" /\ ev[s].bg = "none"
        /\ ev[s].result.kind = "response"
        /\ KeyOf(ev[s].req) \in DOMAIN store[DYNAMIC_CACHE(ev[s].v)]
        /\ store[DYNAMIC_CACHE(ev[s].v)][KeyOf(ev[s].req)] = ev[s].result.resp
        /\ ev[t].bg = "put" /\ ~ev[t].orphan
        /\ ev[t].copy # ev[s].result.resp

\* C35: no step of a fetch handler or of a scan adds, changes or deletes an
\* entry of a precache partition, or creates or deletes such a partition:
\* every change of the store is in a runtime partition.
C35_PrecacheImmutable ==
    [][/\ \A v \in Versions :
             /\ store'[STATIC_CACHE(v)] = store[STATIC_CACHE(v)]
             /\ Has(names', STATIC_CACHE(v)) = Has(names, STATIC_CACHE(v))
       /\ \A n \in CacheNames :
             store'[n] # store[n] => \E v \in Versions : n = DYNAMIC_CACHE(v)
      ]_vars

\* A fetch handler has stored a response and a scan has removed a request,
\* and the precache partition holds what the install stored.
C35_Witness ==
    /\ sync.removed # {}
    /\ \E s \in Slots :
          /\ ev[s].pc = "done" /\ ev[s].via = "network" /\ ev[s].bg = "none"
          /\ ev[s].result.kind = "response"
          /\ KeyOf(ev[s].req) \in DOMAIN store[DYNAMIC_CACHE(ev[s].v)]
          /\ store[DYNAMIC_CACHE(ev[s].v)][KeyOf(ev[s].req)] = ev[s].result.resp
          /\ store[STATIC_CACHE(ev[s].v)] =
                AddAll(EmptyCache, [i \in DOMAIN STATIC_ASSETS |-> "ok"], 1)

C37_NoStaleAfterActivation ==
    \A v, u \in Versions :
        (u < v /\ w[v].state = "activated")
        => ~Has(names, STATIC_CACHE(u)) /\ ~Has(names, DYNAMIC_CACHE(u))

\* C38, as stated: no step changes or removes the response stored under a
\* cache-first key, unless it deletes the partition.
C38_NeverRefreshed ==
    [][\A n \in CacheNames :
          \A k \in DOMAIN store[n] :
             (k.method = "GET" /\ ~NetworkFirst(k))
             => \/ k \in DOMAIN store'[n] /\ store'[n][k] = store[n][k]
                \/ ~Has(names', n) /\ store'[n] = EmptyCache
      ]_vars

\* C38, amended: a fetch event whose lookup finds its key stored issues no
\* network request and starts no store write; the response stored under a
\* cache-first key changes only by the store write of a fetch event for
\* that key that had missed the store and asked the network, or when the
\* partition is deleted.
C38_RefreshedOnlyByConcurrentMiss ==
    [][/\ \A s \in DOMAIN ev :
             ( /\ ev[s].pc = "cf_match" /\ ev'[s] # ev[s]
               /\ Stored(names, store, KeyOf(ev[s].req)) )
             => /\ ev'[s].pc = "done" /\ ev'[s].net = 0 /\ ev'[s].bg = "none"
                /\ store' = store
       /\ \A n \in CacheNames :
             \A k \in DOMAIN store[n] :
                (k.method = "GET" /\ ~NetworkFirst(k))
                => \/ k \in DOMAIN store'[n] /\ store'[n][k] = store[n][k]
                   \/ ~Has(names', n) /\ store'[n] = EmptyCache
                   \/ \E s \in DOMAIN ev :
                         /\ ev[s].bg = "put" /\ ev'[s].bg = "none"
                         /\ KeyOf(ev[s].req) = k /\ n = DYNAMIC_CACHE(ev[s].v)
                         /\ ev[s].via = "network" /\ ev[s].net = 1
                         /\ k \in DOMAIN store'[n] /\ store'[n][k] = ev[s].copy
      ]_vars

\* A fetch event was answered from the runtime partition with the response
\* another event stored, while the write of a third event for the same key,
\* which had missed the store, is pending with another response.
C38_Witness ==
    \E s, t \in DOMAIN ev :
        /\ s # t /\ ev[s].req = ev[t].req /\ ~NetworkFirst(ev[s].req)
        /\ ev[s].pc = "done" /\ ev[s].via = "cache" /\ ev[s].net = 0
        /\ KeyOf(ev[s].req) \in DOMAIN store[DYNAMIC_CACHE(ev[s].v)]
        /\ ev[s].result = Responded(store[DYNAMIC_CACHE(ev[s].v)][KeyOf(ev[s].req)])
        /\ ev[t].bg = "put" /\ ~ev[t].orphan /\ ev[t].via = "network"
        /\ ev[t].copy # store[DYNAMIC_CACHE(ev[s].v)][KeyOf(ev[s].req)]

\* C39: no step of a scan adds an entry, changes or removes a GET entry of
\* any partition or any entry of a precache partition, or deletes a
\* partition.
C39_ScanLeavesOtherEntries ==
    [][\A n \in CacheNames :
          /\ DOMAIN store'[n] \subseteq DOMAIN store[n]
          /\ \A k \in DOMAIN store[n] :
                (k.method = "GET" \/ \E v \in Versions : n = STATIC_CACHE(v))
                => k \in DOMAIN store'[n] /\ store'[n][k] = store[n][k]
          /\ Has(names, n) => Has(names', n)
      ]_vars

\* A scan has replayed and removed a captured request from a runtime
\* partition that holds GET entries; the precache partition is complete.
C39_Witness ==
    /\ sync.pc = "done" /\ sync.result = "resolved" /\ sync.removed # {}
    /\ \E k \in DOMAIN store[DYNAMIC_CACHE(sync.v)] : k.method = "GET"
    /\ Precached(sync.v)

=============================================================================
